---- MODULE Spec2Model ----
(***************************************************************************)
(* Verification model of the filament-sensor core:                         *)
(*   - ConnectionManager  (src/src/lib/mcp2221_sensor/connection.py)       *)
(*   - PulseDetector      (src/src/lib/mcp2221_sensor/pulse_detector.py)   *)
(*   - FilamentMonitor    (src/monitor.py)                                 *)
(* Three specifications share the module: Spec / FairSpec (connection      *)
(* manager with its threads), PulseSpec (pulse detector) and MonitorSpec   *)
(* (polling monitor with persistence).                                     *)
(***************************************************************************)
EXTENDS Integers, Sequences, FiniteSets, TLC

(***************************************************************************)
(* Bounds of the model.                                                    *)
(***************************************************************************)
\* max_retry_attempts is drawn from 1..MaxRetryAttempts
MaxRetryAttempts == 2
\* total number of connect()/reconnect()/disconnect() calls made by callers
MaxCalls == 2
\* up to MaxCallbacks callbacks are registered in each list of the connection manager
MaxCallbacks == 2
\* number of reconnect threads the health-check loop may spawn
MaxReconnectThreads == 1

\* initial_retry_delay and max_retry_delay are drawn from Delays (time units),
\* backoff_multiplier from Multipliers (2.0 is the constructor's default)
Delays == {1, 2}
Multipliers == {2}

\* the clock of the pulse detector runs from 0 to MaxTime
MaxTime == 5
\* debounce_ms is drawn from Debounces; the detector watches the pins of Pins
Debounces == {1, 2}
Pins == {0, 1}

\* the monitor stops polling once MaxEvents pulses and runouts are recorded
MaxEvents == 3
\* two monitors polled in step stop once either has recorded MaxTwinEvents events
MaxTwinEvents == 2
\* _record_attempt keeps the last 20 attempts, PulseStats.recent_pulses the last 10 pulses
RecentAttemptsKept == 20
RecentPulsesKept == 10
\* the bounded lists are followed for MaxRingAttempts attempts, MaxRingSuccesses
\* of them successful, and MaxRingPulses pulses
MaxRingAttempts == 22
MaxRingSuccesses == 1
MaxRingPulses == 12
\* MaxWorkers threads make MaxWorkerCalls calls of one detector between them
MaxWorkers == 2
MaxWorkerCalls == 3
\* calibration_mm_per_pulse = 2.88, in hundredths of a millimetre
CalibrationMmPerPulse == 288
\* confirmation_readings: consecutive agreeing samples that confirm a level
ConfirmationReadings == 3
Sensors == {1, 2}
\* a GPIO configuration names up to MaxSensors sensors, with pins from ConfigPins
\* (4 is not a pin of the device)
MaxSensors == 2
ConfigPins == {0, 1, 4}
\* no device pin was configured before the device raised: it did not raise
NoFailure == -1
NoLevel == -1
Callers == {1, 2}
Reconnectors == {10 + i : i \in 1..MaxReconnectThreads}
Threads == Callers \cup Reconnectors
NoThread == 0

Min(a, b) == IF a <= b THEN a ELSE b

VARIABLES
    \* ---- ConnectionManager configuration (constructor arguments)
    initial_retry_delay, max_retry_delay, backoff_multiplier, max_retry_attempts,
    \* ---- ConnectionManager fields
    state,                \* _state
    connection_time,      \* _connection_time: "none" or "set"
    retry_count,          \* _retry_count
    current_retry_delay,  \* _current_retry_delay
    stats,                \* _stats (ConnectionStats)
    lock,                 \* owner of _lock, NoThread when free
    monitor,              \* position of the ConnectionMonitor thread, "dead" when none is alive
    stop_monitoring,      \* _stop_monitoring event
    \* ---- threads running connect()/reconnect()/disconnect()
    pc, op, result,
    \* ---- observations of the run (history)
    calls_made,           \* API calls issued by callers so far
    spawned,              \* reconnect threads spawned by the health-check loop so far
    loop_calls,           \* device_connector calls made by the current retry loop
    sleeps,               \* delays slept by the current retry loop, in order
    issued_in,            \* per thread: _state when its call was issued
    during_sleep,         \* per thread: its call was issued while a retry loop was in time.sleep
    fresh,                \* TRUE while the retry loop running is the first call on the manager
    invoked,              \* the callbacks invoked by the current call's last dispatch, in order
    \* ---- callbacks registered by the application
    state_change_callbacks,  \* _state_change_callbacks, in the order of registration
    connection_callbacks,    \* _connection_callbacks, in the order of registration
    edge_callbacks,       \* the keys of _edge_callbacks
    pulse_callbacks,      \* the keys of _pulse_callbacks
    raising,              \* the callbacks that raise an exception when invoked
    \* ---- PulseDetector
    debounce_ms,          \* debounce time in milliseconds
    now,                  \* the clock read by datetime.now(), in milliseconds
    registered,           \* the keys of _pin_states
    pin_states,           \* _pin_states
    last_change_time,     \* _last_change_time
    pulse_stats,          \* _pulse_stats
    returned,             \* what the last update_pin_state call returned
    raw_since,            \* per pin: when the current run of equal raw samples began
    prev_count,           \* per pin: debounced_pulses before its last level change, -1 if none
    pin_invoked,          \* the callbacks invoked by the last update_pin_state call, in order
    pending,              \* update_all_pins: the entries of pin_states not yet processed
    emitted,              \* update_all_pins: the pins entered in `events` so far, in order
    handed,               \* per pin: the PulseStats object a query handed out, if any
    \* ---- FilamentMonitor (monitor.py)
    running,              \* the monitor process is up and its loop runs
    last_gpio,            \* last_gpio: four levels, NoLevel for None
    usage,                \* total_pulses, total_distance_mm, total_runout_events per sensor
    session,              \* session_pulses, runout_events, has_filament per sensor
    usage_file,           \* filament_usage.json
    counting,             \* the motion pin whose pulse is counted and whose distance is
                          \* not yet added (monitor thread between the two statements)
    current_gpio,         \* the reading of the loop iteration in progress
    \* ---- observations of the monitor's samples (history)
    last_good,            \* the last reading that succeeded, NoReading before the first
    agreeing,             \* per sensor: length of the current run of equal runout-pin samples
    confirmed,            \* per sensor: some run has reached the confirmation length
    \* ---- a second monitor fed in step with the first (sensor independence)
    twin,                 \* its last_gpio, usage and session, and the sensor compared
    \* ---- MCP2221Manager (mcp2221_sensor/__init__.py)
    device,               \* _device: "none" or "present"
    is_configured,        \* _is_configured
    gpio_config,          \* _gpio_config: the sensors' pins in order, <<>> when empty
    last_call,            \* the last operation on the manager and how it ended (history)
    \* ---- observations of the bounded lists (history)
    arrived,              \* every attempt recorded and, per pin, every pulse time added
    \* ---- threads calling into one PulseDetector
    workers,              \* per thread: where it is in its call, and the call's locals
    detector_lock,        \* PulseDetector._lock: its owner, NoOwner when it is free
    serial                \* the calls run one after the other in the order they took the
                          \* lock (history)

cfgVars == <<initial_retry_delay, max_retry_delay, backoff_multiplier, max_retry_attempts>>
connFields == <<state, connection_time, retry_count, current_retry_delay, stats, lock,
                monitor, stop_monitoring>>
threadVars == <<pc, op, result>>
histVars == <<calls_made, spawned, loop_calls, sleeps, issued_in, during_sleep, fresh, invoked>>
cbVars == <<state_change_callbacks, connection_callbacks, edge_callbacks, pulse_callbacks,
            raising>>
connVars == <<cfgVars, connFields, threadVars, histVars>>

pulseVars == <<debounce_ms, now, registered, pin_states, last_change_time, pulse_stats,
               returned, raw_since, prev_count, pin_invoked, pending, emitted, handed>>

sampleVars == <<last_good, agreeing, confirmed>>
monVars == <<running, last_gpio, usage, session, usage_file, counting, current_gpio,
             sampleVars, twin>>

mgrVars == <<device, is_configured, gpio_config, last_call>>

obsVars == <<arrived>>
workerVars == <<workers, detector_lock, serial>>

vars == <<connVars, pulseVars, monVars, mgrVars, cbVars, obsVars, workerVars>>

\* what the actions of one component leave alone
connFrame == <<cfgVars, pulseVars, monVars, mgrVars, cbVars, obsVars, workerVars>>
pulseFrame == <<connVars, monVars, mgrVars, cbVars, obsVars, workerVars, debounce_ms>>
monFrame == <<connVars, pulseVars, mgrVars, cbVars, obsVars, workerVars, twin>>
mgrFrame == <<connVars, pulseVars, monVars, cbVars, obsVars, workerVars>>

(***************************************************************************)
(* Callbacks.  A callback is named by its kind and its pin or its place in *)
(* the list it was registered in.  A dispatch gives the callbacks it       *)
(* invoked, in order, and whether an exception left it.                    *)
(***************************************************************************)
Listeners == {<<"state", i>> : i \in 1..MaxCallbacks}
                 \cup {<<"connection", i>> : i \in 1..MaxCallbacks}
PinListeners == {<<"edge", p>> : p \in Pins} \cup {<<"pulse", p>> : p \in Pins}

NoDispatch == [invoked |-> <<>>, propagated |-> FALSE]

Workers == 1..MaxWorkers
NoOwner == 0
NoCall == [op |-> "none", pin |-> 0, level |-> TRUE]

\* a thread that is not in a call of the detector
Idle == [pc |-> "idle", call |-> NoCall, time |-> 0, prev |-> TRUE, debounced |-> FALSE,
         todo |-> {}]

NoWorkers ==
    /\ workers = [w \in Workers |-> Idle]
    /\ detector_lock = NoOwner
    /\ serial = [started |-> FALSE, calls |-> 0, waited |-> FALSE,
                 detector |-> [pin_states |-> <<>>, last_change_time |-> <<>>,
                               pulse_stats |-> <<>>]]

\* nothing has been entered in a bounded list yet, and no thread is in a call
\* of the detector
NothingArrived ==
    /\ arrived = [attempts |-> <<>>, pulses |-> [p \in Pins |-> <<>>]]
    /\ NoWorkers

\* variant: no try/except around the call of a callback
InvokeEachUnguarded(callbacks, failing) ==
    LET bad == {i \in DOMAIN callbacks : callbacks[i] \in failing}
    IN IF bad = {}
       THEN [invoked |-> callbacks, propagated |-> FALSE]
       ELSE [invoked |-> SubSeq(callbacks, 1, CHOOSE i \in bad : \A j \in bad : i <= j),
             propagated |-> TRUE]

\* for callback in ...: try: callback(...) except Exception: logger.error(...)
InvokeEach(callbacks, failing) == [invoked |-> callbacks, propagated |-> FALSE]

\* no callback is registered
NoCallbacks ==
    /\ state_change_callbacks = <<>>
    /\ connection_callbacks = <<>>
    /\ edge_callbacks = {}
    /\ pulse_callbacks = {}
    /\ raising = {}

ConnectionState == {"disconnected", "connecting", "connected", "reconnecting", "failed"}

(***************************************************************************)
(* ConnectionManager.__init__                                              *)
(***************************************************************************)
NewStats == [total_attempts |-> 0, successful_connections |-> 0, failed_attempts |-> 0,
             last_successful_connection |-> "none", last_failure |-> "none",
             recent_attempts |-> <<>>]

\* variant: a full list refuses the new entry
KeepOldest(ring, entry, capacity) ==
    IF Len(ring) + 1 > capacity THEN ring ELSE Append(ring, entry)

\* a list kept to its last `capacity` entries: append, then pop(0) when too long
KeepRecent(ring, entry, capacity) ==
    IF Len(ring) + 1 > capacity THEN Tail(Append(ring, entry)) ELSE Append(ring, entry)

\* the ConnectionAttempt recorded after the attempts of st; attempts are
\* stamped in the order of their arrival
NewAttempt(st, success) == [timestamp |-> st.total_attempts + 1, success |-> success]

\* the manager after construction, whatever its configuration
ConnConstructed ==
    /\ state = "disconnected"
    /\ connection_time = "none"
    /\ retry_count = 0
    /\ current_retry_delay = initial_retry_delay
    /\ stats = NewStats
    /\ lock = NoThread
    /\ monitor = "dead"
    /\ stop_monitoring = FALSE
    /\ pc = [t \in Threads |-> IF t \in Callers THEN "idle" ELSE "unborn"]
    /\ op = [t \in Threads |-> "none"]
    /\ result = [t \in Threads |-> "none"]
    /\ calls_made = 0
    /\ spawned = 0
    /\ loop_calls = 0
    /\ sleeps = <<>>
    /\ issued_in = [t \in Threads |-> "none"]
    /\ during_sleep = [t \in Threads |-> FALSE]
    /\ fresh = FALSE
    /\ invoked = <<>>

ConnInit ==
    /\ initial_retry_delay \in Delays
    /\ max_retry_delay \in Delays
    /\ backoff_multiplier \in Multipliers
    /\ max_retry_attempts \in 1..MaxRetryAttempts
    /\ ConnConstructed

\* the connection manager of a run that is about another component
ConnUnused ==
    /\ initial_retry_delay = 1
    /\ max_retry_delay = 2
    /\ backoff_multiplier = 2
    /\ max_retry_attempts = 1
    /\ ConnConstructed

MonitorAlive == monitor # "dead"

\* get_uptime
GetUptime == IF connection_time = "set" /\ state = "connected" THEN "some" ELSE "none"

(***************************************************************************)
(* A caller invokes connect(), reconnect() or disconnect(): the call       *)
(* blocks on `with self._lock` until the lock is free.  Caller threads are *)
(* interchangeable, so a call is made by the lowest idle one.              *)
(***************************************************************************)
Call(t, o) ==
    /\ t \in Callers
    /\ pc[t] = "idle"
    /\ \A u \in Callers : u < t => pc[u] # "idle"
    /\ calls_made < MaxCalls
    /\ pc' = [pc EXCEPT ![t] = "acquire"]
    /\ op' = [op EXCEPT ![t] = o]
    /\ result' = [result EXCEPT ![t] = "none"]
    /\ issued_in' = [issued_in EXCEPT ![t] = state]
    /\ during_sleep' = [during_sleep EXCEPT ![t] = \E u \in Threads : pc[u] = "sleep"]
    /\ calls_made' = calls_made + 1
    /\ UNCHANGED <<connFrame, connFields, spawned, loop_calls, sleeps, fresh, invoked>>

\* variant: the delay reached by the previous retry loop is kept
ResetRetryParametersKeepsDelay ==
    /\ retry_count' = 0
    /\ current_retry_delay' = current_retry_delay

\* connect() lines 139-140 and reconnect() lines 254-255 reset the retry parameters
ResetRetryParameters ==
    /\ retry_count' = 0
    /\ current_retry_delay' = initial_retry_delay

\* _trigger_state_callbacks
TriggerStateCallbacks(failing) == InvokeEach(state_change_callbacks, failing)

\* _trigger_connection_callbacks
TriggerConnectionCallbacks(failing) == InvokeEach(connection_callbacks, failing)

\* the dispatch of _set_state: the state callbacks, when the state changes
SetState(new_state, failing) ==
    IF state # new_state THEN TriggerStateCallbacks(failing) ELSE NoDispatch

\* an exception leaves the call before the retry loop is entered
Raised(t) ==
    /\ pc' = [pc EXCEPT ![t] = "ret"]
    /\ result' = [result EXCEPT ![t] = "raise"]
    /\ UNCHANGED <<retry_count, current_retry_delay, loop_calls, sleeps, fresh>>

StartLoop(t) ==
    /\ ResetRetryParameters
    /\ loop_calls' = 0
    /\ sleeps' = <<>>
    /\ fresh' = (t \in Callers /\ calls_made = 1 /\ stats.total_attempts = 0)

(***************************************************************************)
(* connect(): lock taken; returns True at once when connected, otherwise   *)
(* enters the retry loop in state Connecting.                              *)
(***************************************************************************)
\* variant: no early return when already connected
ConnectEnterAlwaysRetries(t, failing) ==
    /\ pc[t] = "acquire" /\ op[t] = "connect" /\ lock = NoThread
    /\ lock' = t
    /\ state' = "connecting"
    /\ invoked' = SetState("connecting", failing).invoked
    /\ IF SetState("connecting", failing).propagated
       THEN Raised(t)
       ELSE /\ StartLoop(t)
            /\ pc' = [pc EXCEPT ![t] = "loop"]
            /\ UNCHANGED result
    /\ UNCHANGED <<connFrame, connection_time, stats, monitor, stop_monitoring, op,
                   calls_made, spawned, issued_in, during_sleep>>

ConnectEnter(t, failing) ==
    /\ pc[t] = "acquire" /\ op[t] = "connect" /\ lock = NoThread
    /\ lock' = t
    /\ IF state = "connected"
       THEN /\ pc' = [pc EXCEPT ![t] = "ret"]
            /\ result' = [result EXCEPT ![t] = "true"]
            /\ UNCHANGED <<state, retry_count, current_retry_delay, loop_calls, sleeps, fresh,
                           invoked>>
       ELSE /\ state' = "connecting"
            /\ invoked' = SetState("connecting", failing).invoked
            /\ IF SetState("connecting", failing).propagated
               THEN Raised(t)
               ELSE /\ StartLoop(t)
                    /\ pc' = [pc EXCEPT ![t] = "loop"]
                    /\ UNCHANGED result
    /\ UNCHANGED <<connFrame, connection_time, stats, monitor, stop_monitoring, op,
                   calls_made, spawned, issued_in, during_sleep>>

(***************************************************************************)
(* reconnect(): lock taken, state Reconnecting, monitoring thread stopped  *)
(* (stop event set and joined when it is alive), then the retry loop.      *)
(***************************************************************************)
\* variant: the state is left as it is until the retry loop has an outcome
ReconnectEnterKeepsState(t, failing) ==
    /\ pc[t] = "acquire" /\ op[t] = "reconnect" /\ lock = NoThread
    /\ lock' = t
    /\ IF MonitorAlive
       THEN /\ stop_monitoring' = TRUE
            /\ pc' = [pc EXCEPT ![t] = "join"]
            /\ UNCHANGED <<retry_count, current_retry_delay, loop_calls, sleeps, fresh>>
       ELSE /\ StartLoop(t)
            /\ pc' = [pc EXCEPT ![t] = "loop"]
            /\ UNCHANGED stop_monitoring
    /\ UNCHANGED <<connFrame, state, connection_time, stats, monitor, op, result,
                   calls_made, spawned, issued_in, during_sleep, invoked>>

ReconnectEnter(t, failing) ==
    /\ pc[t] = "acquire" /\ op[t] = "reconnect" /\ lock = NoThread
    /\ lock' = t
    /\ state' = "reconnecting"
    /\ invoked' = SetState("reconnecting", failing).invoked
    /\ IF SetState("reconnecting", failing).propagated
       THEN /\ Raised(t)
            /\ UNCHANGED stop_monitoring
       ELSE IF MonitorAlive
       THEN /\ stop_monitoring' = TRUE
            /\ pc' = [pc EXCEPT ![t] = "join"]
            /\ UNCHANGED <<retry_count, current_retry_delay, loop_calls, sleeps, fresh, result>>
       ELSE /\ StartLoop(t)
            /\ pc' = [pc EXCEPT ![t] = "loop"]
            /\ UNCHANGED <<stop_monitoring, result>>
    /\ UNCHANGED <<connFrame, connection_time, stats, monitor, op,
                   calls_made, spawned, issued_in, during_sleep>>

\* _monitor_thread.join(timeout=5.0): returns when the thread has ended, or on
\* timeout while the thread is blocked inside health_checker()
JoinReturns == monitor = "dead" \/ monitor = "health"

ReconnectJoined(t) ==
    /\ pc[t] = "join" /\ op[t] = "reconnect" /\ lock = t
    /\ JoinReturns
    /\ StartLoop(t)
    /\ pc' = [pc EXCEPT ![t] = "loop"]
    /\ UNCHANGED <<connFrame, state, connection_time, stats, lock, monitor, stop_monitoring,
                   op, result, calls_made, spawned, issued_in, during_sleep, invoked>>

(***************************************************************************)
(* disconnect()                                                            *)
(***************************************************************************)
\* variant: _connection_time is not cleared
FinishDisconnectKeepsTime(t, failing) ==
    /\ connection_time' = connection_time
    /\ state' = "disconnected"
    /\ invoked' = SetState("disconnected", failing).invoked
    /\ pc' = [pc EXCEPT ![t] = "ret"]
    /\ result' = IF SetState("disconnected", failing).propagated
                 THEN [result EXCEPT ![t] = "raise"]
                 ELSE result

\* lines 235-236
FinishDisconnect(t, failing) ==
    /\ connection_time' = "none"
    /\ state' = "disconnected"
    /\ invoked' = SetState("disconnected", failing).invoked
    /\ pc' = [pc EXCEPT ![t] = "ret"]
    /\ result' = IF SetState("disconnected", failing).propagated
                 THEN [result EXCEPT ![t] = "raise"]
                 ELSE result

DisconnectEnter(t, failing) ==
    /\ pc[t] = "acquire" /\ op[t] = "disconnect" /\ lock = NoThread
    /\ lock' = t
    /\ IF state = "disconnected"
       THEN /\ pc' = [pc EXCEPT ![t] = "ret"]
            /\ UNCHANGED <<state, connection_time, stop_monitoring, result, invoked>>
       ELSE IF MonitorAlive
            THEN /\ stop_monitoring' = TRUE
                 /\ pc' = [pc EXCEPT ![t] = "join"]
                 /\ UNCHANGED <<state, connection_time, result, invoked>>
            ELSE /\ FinishDisconnect(t, failing)
                 /\ UNCHANGED stop_monitoring
    /\ UNCHANGED <<connFrame, retry_count, current_retry_delay, stats, monitor, op,
                   calls_made, spawned, loop_calls, sleeps, issued_in, during_sleep, fresh>>

DisconnectJoined(t, failing) ==
    /\ pc[t] = "join" /\ op[t] = "disconnect" /\ lock = t
    /\ JoinReturns
    /\ FinishDisconnect(t, failing)
    /\ UNCHANGED <<connFrame, retry_count, current_retry_delay, stats, lock, monitor,
                   stop_monitoring, op, calls_made, spawned, loop_calls, sleeps, issued_in,
                   during_sleep, fresh>>

(***************************************************************************)
(* _attempt_connection_with_retries                                        *)
(***************************************************************************)
\* variant: off-by-one loop condition
RetriesLeftOffByOne == retry_count <= max_retry_attempts

\* the while condition, line 146
RetriesLeft == retry_count < max_retry_attempts

\* variant: a failed attempt is counted in total_attempts only
RecordAttemptDropsFailure(st, success) ==
    [st EXCEPT !.total_attempts = @ + 1,
               !.recent_attempts = KeepRecent(@, NewAttempt(st, success), RecentAttemptsKept),
               !.successful_connections = IF success THEN @ + 1 ELSE @]

\* _record_attempt (counters) and _connection_failed (last_failure)
RecordAttempt(st, success) ==
    [st EXCEPT !.total_attempts = @ + 1,
               !.recent_attempts = KeepRecent(@, NewAttempt(st, success), RecentAttemptsKept),
               !.successful_connections = IF success THEN @ + 1 ELSE @,
               !.failed_attempts = IF success THEN @ ELSE @ + 1]

\* _start_monitoring: a new thread only when none is alive
StartMonitoring ==
    IF MonitorAlive
    THEN UNCHANGED <<monitor, stop_monitoring>>
    ELSE /\ stop_monitoring' = FALSE
         /\ monitor' = "wait"

\* _connection_successful; an exception leaving a dispatch is caught by the
\* except clause of the retry loop (line 172), which records a failed attempt
\* and calls _connection_failed
ConnectionSuccessful(t, failing) ==
    LET changed == SetState("connected", failing)
        told == IF changed.propagated THEN NoDispatch
                ELSE TriggerConnectionCallbacks(failing)
        caught == changed.propagated \/ told.propagated
        handler == IF caught THEN TriggerConnectionCallbacks(failing) ELSE NoDispatch
        recorded == [RecordAttempt(stats, TRUE) EXCEPT !.last_successful_connection = "set"]
    IN /\ connection_time' = "set"
       /\ current_retry_delay' = initial_retry_delay
       /\ state' = "connected"
       /\ invoked' = changed.invoked \o told.invoked \o handler.invoked
       /\ IF ~caught
          THEN /\ stats' = recorded
               /\ retry_count' = 0
               /\ StartMonitoring
               /\ pc' = [pc EXCEPT ![t] = "ret"]
               /\ result' = [result EXCEPT ![t] = "true"]
          ELSE /\ stats' = [RecordAttempt(recorded, FALSE) EXCEPT !.last_failure = "set"]
               /\ UNCHANGED <<monitor, stop_monitoring>>
               /\ IF handler.propagated
                  THEN /\ retry_count' = 0
                       /\ pc' = [pc EXCEPT ![t] = "ret"]
                       /\ result' = [result EXCEPT ![t] = "raise"]
                  ELSE /\ retry_count' = 1
                       /\ pc' = [pc EXCEPT ![t] =
                                    IF 1 < max_retry_attempts THEN "sleep" ELSE "loop"]
                       /\ UNCHANGED result

\* a failed attempt: device_connector returned False or raised; an exception
\* leaving the dispatch of _connection_failed reaches the except clause when
\* device_connector returned False, and leaves the call from there
ConnectionFailed(t, outcome, failing) ==
    LET told == TriggerConnectionCallbacks(failing)
        handler == IF outcome = "false" /\ told.propagated
                   THEN TriggerConnectionCallbacks(failing)
                   ELSE NoDispatch
        recorded == [RecordAttempt(stats, FALSE) EXCEPT !.last_failure = "set"]
    IN /\ stats' = IF outcome = "false" /\ told.propagated
                   THEN RecordAttempt(recorded, FALSE)
                   ELSE recorded
       /\ invoked' = told.invoked \o handler.invoked
       /\ IF told.propagated
          THEN /\ pc' = [pc EXCEPT ![t] = "ret"]
               /\ result' = [result EXCEPT ![t] = "raise"]
               /\ UNCHANGED retry_count
          ELSE /\ retry_count' = retry_count + 1
               /\ pc' = [pc EXCEPT ![t] =
                            IF retry_count + 1 < max_retry_attempts THEN "sleep" ELSE "loop"]
               /\ UNCHANGED result
       /\ UNCHANGED <<connection_time, current_retry_delay, state, monitor, stop_monitoring>>

\* one iteration of the while loop up to the sleep: device_connector() is called
\* and answers True, False or raises
Attempt(t, outcome, failing) ==
    /\ pc[t] = "loop" /\ lock = t
    /\ RetriesLeft
    /\ loop_calls' = loop_calls + 1
    /\ IF outcome = "true"
       THEN ConnectionSuccessful(t, failing)
       ELSE ConnectionFailed(t, outcome, failing)
    /\ UNCHANGED <<connFrame, lock, op, calls_made, spawned, sleeps, issued_in, during_sleep,
                   fresh>>

\* the exponential backoff step, lines 196-199
BackoffDelay(d) == Min(d * backoff_multiplier, max_retry_delay)

\* time.sleep(self._current_retry_delay), then the delay is advanced
Sleep(t) ==
    /\ pc[t] = "sleep" /\ lock = t
    /\ sleeps' = Append(sleeps, current_retry_delay)
    /\ current_retry_delay' = BackoffDelay(current_retry_delay)
    /\ pc' = [pc EXCEPT ![t] = "loop"]
    /\ UNCHANGED <<connFrame, state, connection_time, retry_count, stats, lock, monitor,
                   stop_monitoring, op, result, calls_made, spawned, loop_calls, issued_in,
                   during_sleep, fresh, invoked>>

\* all retry attempts exhausted, lines 201-204
Exhausted(t, failing) ==
    /\ pc[t] = "loop" /\ lock = t
    /\ ~RetriesLeft
    /\ state' = "failed"
    /\ invoked' = SetState("failed", failing).invoked
    /\ pc' = [pc EXCEPT ![t] = "ret"]
    /\ result' = [result EXCEPT ![t] =
                     IF SetState("failed", failing).propagated THEN "raise" ELSE "false"]
    /\ UNCHANGED <<connFrame, connection_time, retry_count, current_retry_delay, stats, lock,
                   monitor, stop_monitoring, op, calls_made, spawned, loop_calls, sleeps,
                   issued_in, during_sleep, fresh>>

\* the call returns: the `with self._lock` block is left
Return(t) ==
    /\ pc[t] = "ret" /\ lock = t
    /\ lock' = NoThread
    /\ pc' = [pc EXCEPT ![t] = IF t \in Callers THEN "idle" ELSE "done"]
    /\ op' = [op EXCEPT ![t] = "none"]
    /\ result' = [result EXCEPT ![t] = "none"]
    /\ issued_in' = [issued_in EXCEPT ![t] = "none"]
    /\ during_sleep' = [during_sleep EXCEPT ![t] = FALSE]
    /\ loop_calls' = 0
    /\ sleeps' = <<>>
    /\ fresh' = FALSE
    /\ invoked' = <<>>
    /\ UNCHANGED <<connFrame, state, connection_time, retry_count, current_retry_delay, stats,
                   monitor, stop_monitoring, calls_made, spawned>>

(***************************************************************************)
(* _monitor_connection: the health-check loop                              *)
(***************************************************************************)
\* self._stop_monitoring.wait(check_interval) returns True: the loop ends
MonitorStopped ==
    /\ monitor = "wait" /\ stop_monitoring
    /\ monitor' = "dead"
    /\ UNCHANGED <<connFrame, state, connection_time, retry_count, current_retry_delay, stats,
                   lock, stop_monitoring, threadVars, histVars>>

\* the wait times out: the loop body runs and reads _state (without the lock)
MonitorTick ==
    /\ monitor = "wait" /\ ~stop_monitoring
    /\ monitor' = IF state = "connected" THEN "health" ELSE "wait"
    /\ UNCHANGED <<connFrame, state, connection_time, retry_count, current_retry_delay, stats,
                   lock, stop_monitoring, threadVars, histVars>>

\* health_checker() answers True: the loop goes on
MonitorHealthy ==
    /\ monitor = "health"
    /\ monitor' = "wait"
    /\ UNCHANGED <<connFrame, state, connection_time, retry_count, current_retry_delay, stats,
                   lock, stop_monitoring, threadVars, histVars>>

\* health_checker() raises: the except clause of the loop body is entered
MonitorRaised ==
    /\ monitor = "health"
    /\ monitor' = "caught"
    /\ UNCHANGED <<connFrame, state, connection_time, retry_count, current_retry_delay, stats,
                   lock, stop_monitoring, threadVars, histVars>>

\* variant: the exception ends the monitoring thread
MonitorCaughtEndsThread ==
    /\ monitor = "caught"
    /\ monitor' = "dead"
    /\ UNCHANGED <<connFrame, state, connection_time, retry_count, current_retry_delay, stats,
                   lock, stop_monitoring, threadVars, histVars>>

\* lines 349-350: the exception is logged and the loop goes on
MonitorCaught ==
    /\ monitor = "caught"
    /\ monitor' = "wait"
    /\ UNCHANGED <<connFrame, state, connection_time, retry_count, current_retry_delay, stats,
                   lock, stop_monitoring, threadVars, histVars>>

\* health_checker() answers False: a thread running reconnect() is started
\* and the loop breaks
MonitorUnhealthy ==
    /\ monitor = "health"
    /\ spawned < MaxReconnectThreads
    /\ LET r == 10 + spawned + 1 IN
         /\ pc' = [pc EXCEPT ![r] = "acquire"]
         /\ op' = [op EXCEPT ![r] = "reconnect"]
         /\ issued_in' = [issued_in EXCEPT ![r] = state]
    /\ spawned' = spawned + 1
    /\ monitor' = "exit"
    /\ UNCHANGED <<connFrame, state, connection_time, retry_count, current_retry_delay, stats,
                   lock, stop_monitoring, result, calls_made, loop_calls, sleeps,
                   during_sleep, fresh, invoked>>

\* the monitoring thread terminates after the break
MonitorExit ==
    /\ monitor = "exit"
    /\ monitor' = "dead"
    /\ UNCHANGED <<connFrame, state, connection_time, retry_count, current_retry_delay, stats,
                   lock, stop_monitoring, threadVars, histVars>>

ThreadStep(t) ==
    \/ ConnectEnter(t, raising)
    \/ ReconnectEnter(t, raising)
    \/ ReconnectJoined(t)
    \/ DisconnectEnter(t, raising)
    \/ DisconnectJoined(t, raising)
    \/ \E outcome \in {"true", "false", "raise"} : Attempt(t, outcome, raising)
    \/ Sleep(t)
    \/ Exhausted(t, raising)
    \/ Return(t)

MonitorStep ==
    \/ MonitorStopped
    \/ MonitorTick
    \/ MonitorHealthy
    \/ MonitorRaised
    \/ MonitorCaught
    \/ MonitorUnhealthy
    \/ MonitorExit

(***************************************************************************)
(* PulseDetector                                                           *)
(***************************************************************************)
NoTime == -1
NewPulseStats == [total_pulses |-> 0, debounced_pulses |-> 0, last_pulse_time |-> NoTime,
                  recent_pulses |-> <<>>]

\* no query has handed out the statistics of the pin
NotHanded == [held |-> "none", taken |-> NewPulseStats, kept |-> NewPulseStats]

NothingHanded == \A p \in Pins : handed[p].held = "none"

\* the dictionary entries of pins get new PulseStats objects: an object handed
\* out before stays as it was when it was replaced
Replaced(pins) ==
    [p \in Pins |-> IF p \in pins /\ handed[p].held = "live"
                    THEN [handed[p] EXCEPT !.held = "old", !.kept = pulse_stats[p]]
                    ELSE handed[p]]

\* what the holder of the object handed out for pin p reads in it
HandedContents(p) == IF handed[p].held = "live" THEN pulse_stats[p] ELSE handed[p].kept

\* PulseDetector.__init__: nothing is registered
PulseInit ==
    /\ debounce_ms \in Debounces
    /\ now = 0
    /\ registered = {}
    /\ pin_states = [p \in Pins |-> TRUE]
    /\ last_change_time = [p \in Pins |-> 0]
    /\ pulse_stats = [p \in Pins |-> NewPulseStats]
    /\ returned = "none"
    /\ raw_since = [p \in Pins |-> 0]
    /\ prev_count = [p \in Pins |-> -1]
    /\ pin_invoked = <<>>
    /\ pending = <<>>
    /\ emitted = <<>>
    /\ handed = [p \in Pins |-> NotHanded]

\* the pulse detector of a run that is about another component
PulseUnused ==
    /\ debounce_ms = 2
    /\ now = 0
    /\ registered = {}
    /\ pin_states = [p \in Pins |-> TRUE]
    /\ last_change_time = [p \in Pins |-> 0]
    /\ pulse_stats = [p \in Pins |-> NewPulseStats]
    /\ returned = "none"
    /\ raw_since = [p \in Pins |-> 0]
    /\ prev_count = [p \in Pins |-> -1]
    /\ pin_invoked = <<>>
    /\ pending = <<>>
    /\ emitted = <<>>
    /\ handed = [p \in Pins |-> NotHanded]

\* time passes between two calls
AdvanceTime ==
    /\ now < MaxTime
    /\ now' = now + 1
    /\ UNCHANGED <<pulseFrame, registered, pin_states, last_change_time, pulse_stats,
                   returned, raw_since, prev_count, pin_invoked, pending, emitted, handed>>

\* register_pin
RegisterPin(p, initial_state) ==
    /\ registered' = registered \cup {p}
    /\ pin_states' = [pin_states EXCEPT ![p] = initial_state]
    /\ last_change_time' = [last_change_time EXCEPT ![p] = now]
    /\ pulse_stats' = [pulse_stats EXCEPT ![p] = NewPulseStats]
    /\ raw_since' = [raw_since EXCEPT ![p] = now]
    /\ prev_count' = [prev_count EXCEPT ![p] = -1]
    /\ handed' = Replaced({p})
    /\ UNCHANGED <<pulseFrame, now, returned, pin_invoked, pending, emitted>>

\* variant: the rising edge is taken for the pulse
IsFallingEdgeInverted(previous_state, current_state) == ~previous_state /\ current_state

\* PulseEvent.is_falling_edge
IsFallingEdge(previous_state, current_state) == previous_state /\ ~current_state

\* line 154-155: the time since the pin's last change against the debounce time
IsDebounced(p) == now - last_change_time[p] >= debounce_ms

\* PulseStats.add_pulse (counters, last pulse time and the deque of the last
\* 10 pulse times)
AddPulse(st, pulse_time) ==
    [st EXCEPT !.total_pulses = @ + 1,
               !.debounced_pulses = @ + 1,
               !.last_pulse_time = pulse_time,
               !.recent_pulses = KeepRecent(@, pulse_time, RecentPulsesKept)]

\* _trigger_edge_callbacks: the edge callback of the pin, when one is registered
TriggerEdgeCallbacks(p, failing) ==
    InvokeEach(IF p \in edge_callbacks THEN << <<"edge", p>> >> ELSE <<>>, failing)

\* _trigger_pulse_callbacks: the pulse callback of the pin, when one is registered
TriggerPulseCallbacks(p, failing) ==
    InvokeEach(IF p \in pulse_callbacks THEN << <<"pulse", p>> >> ELSE <<>>, failing)

\* lines 174-178: the edge callback, then the pulse callback on a falling edge;
\* an exception leaving the first dispatch leaves update_pin_state
TriggerCallbacks(p, new_state, failing) ==
    LET edge == IF IsDebounced(p) THEN TriggerEdgeCallbacks(p, failing) ELSE NoDispatch
        pulse == IF /\ IsDebounced(p)
                    /\ IsFallingEdge(pin_states[p], new_state)
                    /\ ~edge.propagated
                 THEN TriggerPulseCallbacks(p, failing)
                 ELSE NoDispatch
    IN [invoked |-> edge.invoked \o pulse.invoked,
        propagated |-> edge.propagated \/ pulse.propagated]

\* update_pin_state; the callbacks of failing raise when they are invoked
UpdatePinState(p, new_state, failing) ==
    IF p \notin registered \/ new_state = pin_states[p]
    THEN /\ returned' = "none"
         /\ pin_invoked' = <<>>
         /\ UNCHANGED <<pulseFrame, now, registered, pin_states, last_change_time,
                        pulse_stats, raw_since, prev_count>>
    ELSE /\ pin_states' = [pin_states EXCEPT ![p] = new_state]
         /\ last_change_time' = [last_change_time EXCEPT ![p] = now]
         /\ pulse_stats' =
                IF IsDebounced(p) /\ IsFallingEdge(pin_states[p], new_state)
                THEN [pulse_stats EXCEPT ![p] = AddPulse(@, now)]
                ELSE pulse_stats
         /\ pin_invoked' = TriggerCallbacks(p, new_state, failing).invoked
         /\ returned' = IF TriggerCallbacks(p, new_state, failing).propagated THEN "raise"
                        ELSE IF IsDebounced(p) THEN "event" ELSE "none"
         /\ raw_since' = [raw_since EXCEPT ![p] = now]
         /\ prev_count' = [prev_count EXCEPT ![p] = pulse_stats[p].debounced_pulses]
         /\ UNCHANGED <<pulseFrame, now, registered>>

\* reset_pin_statistics
ResetPinStatistics(p) ==
    /\ p \in registered
    /\ pulse_stats' = [pulse_stats EXCEPT ![p] = NewPulseStats]
    /\ prev_count' = [prev_count EXCEPT ![p] = -1]
    /\ handed' = Replaced({p})
    /\ UNCHANGED <<pulseFrame, now, registered, pin_states, last_change_time, returned,
                   raw_since, pin_invoked, pending, emitted>>

\* get_statistics: _pulse_stats.get(pin), the object itself
GetStatistics(p) ==
    /\ p \in registered
    /\ handed' = [handed EXCEPT ![p] = [held |-> "live", taken |-> pulse_stats[p],
                                        kept |-> pulse_stats[p]]]
    /\ UNCHANGED <<pulseFrame, now, registered, pin_states, last_change_time, pulse_stats,
                   returned, raw_since, prev_count, pin_invoked, pending, emitted>>

\* get_all_statistics: _pulse_stats.copy(), a new dictionary of the same objects
GetAllStatistics ==
    /\ handed' = [p \in Pins |->
                     IF p \in registered
                     THEN [held |-> "live", taken |-> pulse_stats[p], kept |-> pulse_stats[p]]
                     ELSE NotHanded]
    /\ UNCHANGED <<pulseFrame, now, registered, pin_states, last_change_time, pulse_stats,
                   returned, raw_since, prev_count, pin_invoked, pending, emitted>>

(***************************************************************************)
(* Threads in the detector.  A call takes _lock, runs its body statement   *)
(* by statement and gives the lock back; other threads run in between.     *)
(***************************************************************************)
DetectorCalls ==
    {[op |-> "update", pin |-> p, level |-> b] : p \in Pins, b \in BOOLEAN}
        \cup {[op |-> "reset_pin", pin |-> p, level |-> TRUE] : p \in Pins}
        \cup {[op |-> "reset_all", pin |-> 0, level |-> TRUE]}

\* the dictionaries of the detector
Detector ==
    [pin_states |-> pin_states, last_change_time |-> last_change_time,
     pulse_stats |-> pulse_stats]

\* update_pin_state(p, b) run on its own at time t on the detector d
UpdatedAlone(d, p, b, t) ==
    IF b = d.pin_states[p]
    THEN d
    ELSE [pin_states |-> [d.pin_states EXCEPT ![p] = b],
          last_change_time |-> [d.last_change_time EXCEPT ![p] = t],
          pulse_stats |->
              IF t - d.last_change_time[p] >= debounce_ms /\ IsFallingEdge(d.pin_states[p], b)
              THEN [d.pulse_stats EXCEPT ![p] = AddPulse(@, t)]
              ELSE d.pulse_stats]

\* a call run on its own at time t on the detector d
RunAlone(d, call, t) ==
    CASE call.op = "update" -> UpdatedAlone(d, call.pin, call.level, t)
      [] call.op = "reset_pin" ->
            IF call.pin \in registered
            THEN [d EXCEPT !.pulse_stats[call.pin] = NewPulseStats]
            ELSE d
      [] call.op = "reset_all" ->
            [d EXCEPT !.pulse_stats = [p \in Pins |-> NewPulseStats]]

\* a thread calls update_pin_state, reset_pin_statistics or reset_all_statistics;
\* update_pin_state returns at once for a pin that is not registered (line 141)
WorkerCall(w, call) ==
    /\ workers[w].pc = "idle"
    /\ serial.calls < MaxWorkerCalls
    /\ serial' = [serial EXCEPT !.calls = @ + 1]
    /\ workers' = IF call.op = "update" /\ call.pin \notin registered
                  THEN workers
                  ELSE [workers EXCEPT ![w] = [Idle EXCEPT !.pc = "lock", !.call = call]]
    /\ UNCHANGED <<connVars, monVars, mgrVars, cbVars, obsVars, pulseVars, detector_lock>>

\* the pins whose statistics a reset replaces
ResetPins(call) ==
    CASE call.op = "reset_all" -> registered
      [] call.op = "reset_pin" -> {call.pin} \cap registered
      [] OTHER -> {}

\* variant: the lock is given to a thread while another one holds it
WorkerAcquireUnlocked(w) ==
    /\ workers[w].pc = "lock"
    /\ detector_lock' = w
    /\ workers' = [workers EXCEPT
                      ![w].pc = IF workers[w].call.op = "update" THEN "read"
                                ELSE IF ResetPins(workers[w].call) = {} THEN "unlock"
                                ELSE "reset",
                      ![w].time = now,
                      ![w].todo = ResetPins(workers[w].call)]
    /\ serial' = [serial EXCEPT
                     !.started = TRUE,
                     !.detector = RunAlone(IF serial.started THEN @ ELSE Detector,
                                           workers[w].call, now)]
    /\ UNCHANGED <<connVars, monVars, mgrVars, cbVars, obsVars, pulseVars>>

\* `with self._lock`, and in update_pin_state the reading of the clock
WorkerAcquire(w) ==
    /\ workers[w].pc = "lock"
    /\ detector_lock = NoOwner
    /\ detector_lock' = w
    /\ workers' = [workers EXCEPT
                      ![w].pc = IF workers[w].call.op = "update" THEN "read"
                                ELSE IF ResetPins(workers[w].call) = {} THEN "unlock"
                                ELSE "reset",
                      ![w].time = now,
                      ![w].todo = ResetPins(workers[w].call)]
    /\ serial' = [serial EXCEPT
                     !.started = TRUE,
                     !.detector = RunAlone(IF serial.started THEN @ ELSE Detector,
                                           workers[w].call, now)]
    /\ UNCHANGED <<connVars, monVars, mgrVars, cbVars, obsVars, pulseVars>>

\* update_pin_state lines 146-155: the previous state is read and compared,
\* the time since the last change is taken
WorkerRead(w) ==
    LET p == workers[w].call.pin IN
    /\ workers[w].pc = "read"
    /\ workers' = [workers EXCEPT
                      ![w].pc = IF workers[w].call.level = pin_states[p] THEN "unlock"
                                ELSE "write",
                      ![w].prev = pin_states[p],
                      ![w].debounced = workers[w].time - last_change_time[p] >= debounce_ms]
    /\ UNCHANGED <<connVars, monVars, mgrVars, cbVars, obsVars, pulseVars, detector_lock,
                   serial>>

\* update_pin_state lines 166-171: the state, the time of change and the
\* statistics are written
WorkerWrite(w) ==
    LET p == workers[w].call.pin IN
    /\ workers[w].pc = "write"
    /\ pin_states' = [pin_states EXCEPT ![p] = workers[w].call.level]
    /\ last_change_time' = [last_change_time EXCEPT ![p] = workers[w].time]
    /\ pulse_stats' =
           IF workers[w].debounced /\ IsFallingEdge(workers[w].prev, workers[w].call.level)
           THEN [pulse_stats EXCEPT ![p] = AddPulse(@, workers[w].time)]
           ELSE pulse_stats
    /\ workers' = [workers EXCEPT ![w].pc = "unlock"]
    /\ UNCHANGED <<connVars, monVars, mgrVars, cbVars, obsVars, debounce_ms, now, registered,
                   returned, raw_since, prev_count, pin_invoked, pending, emitted, handed,
                   detector_lock, serial>>

\* reset_pin_statistics, and one turn of the loop of reset_all_statistics
WorkerReset(w) ==
    /\ workers[w].pc = "reset"
    /\ \E p \in workers[w].todo :
          /\ pulse_stats' = [pulse_stats EXCEPT ![p] = NewPulseStats]
          /\ handed' = Replaced({p})
          /\ workers' = [workers EXCEPT
                            ![w].todo = @ \ {p},
                            ![w].pc = IF workers[w].todo = {p} THEN "unlock" ELSE "reset"]
    /\ UNCHANGED <<connVars, monVars, mgrVars, cbVars, obsVars, debounce_ms, now, registered,
                   pin_states, last_change_time, returned, raw_since, prev_count,
                   pin_invoked, pending, emitted, detector_lock, serial>>

\* the end of the `with` block
WorkerRelease(w) ==
    /\ workers[w].pc = "unlock"
    /\ detector_lock' = NoOwner
    /\ workers' = [workers EXCEPT ![w] = Idle]
    /\ serial' = [serial EXCEPT
                     !.waited = @ \/ \E v \in Workers : workers[v].pc = "lock"]
    /\ UNCHANGED <<connVars, monVars, mgrVars, cbVars, obsVars, pulseVars>>

WorkerNext ==
    \/ AdvanceTime
    \/ \E p \in Pins, b \in BOOLEAN : serial.calls = 0 /\ RegisterPin(p, b)
    \/ \E w \in Workers, call \in DetectorCalls : WorkerCall(w, call)
    \/ \E w \in Workers : WorkerAcquire(w)
    \/ \E w \in Workers : WorkerRead(w)
    \/ \E w \in Workers : WorkerWrite(w)
    \/ \E w \in Workers : WorkerReset(w)
    \/ \E w \in Workers : WorkerRelease(w)

PulseNext ==
    \/ AdvanceTime
    \/ \E p \in Pins, b \in BOOLEAN : RegisterPin(p, b)
    \/ \E p \in Pins, b \in BOOLEAN :
           UpdatePinState(p, b, raising) /\ UNCHANGED <<pending, emitted, handed>>
    \/ \E p \in Pins : ResetPinStatistics(p)

\* the detector and one query: what the query handed out is followed
SnapshotNext ==
    \/ AdvanceTime
    \/ \E p \in Pins, b \in BOOLEAN : RegisterPin(p, b)
    \/ \E p \in Pins, b \in BOOLEAN :
           UpdatePinState(p, b, raising) /\ UNCHANGED <<pending, emitted, handed>>
    \/ \E p \in Pins : ResetPinStatistics(p)
    \/ \E p \in Pins : NothingHanded /\ GetStatistics(p)
    \/ NothingHanded /\ GetAllStatistics

(***************************************************************************)
(* update_all_pins: the entries of the dictionary pin_states are processed *)
(* one by one in the order the dictionary gives them, each by a call of    *)
(* update_pin_state that takes the lock for itself.                        *)
(***************************************************************************)
\* the dictionaries a caller may supply: every pin at most once, in any order
PinSamples ==
    {ps \in UNION {[1..n -> Pins \X BOOLEAN] : n \in 1..Cardinality(Pins)} :
        \A i, j \in DOMAIN ps : i # j => ps[i][1] # ps[j][1]}

\* update_all_pins is called: events = {}
UpdateAllPins(samples) ==
    /\ pending = <<>>
    /\ pending' = samples
    /\ emitted' = <<>>
    /\ UNCHANGED <<pulseFrame, now, registered, pin_states, last_change_time, pulse_stats,
                   returned, raw_since, prev_count, pin_invoked, handed>>

\* one turn of the loop `for gpio_name, state in pin_states.items()`
UpdateNextPin ==
    /\ pending # <<>>
    /\ UpdatePinState(Head(pending)[1], Head(pending)[2], raising)
    /\ pending' = Tail(pending)
    /\ emitted' = Append(emitted, Head(pending)[1])
    /\ UNCHANGED handed

AllPinsNext ==
    \/ AdvanceTime
    \/ \E p \in Pins, b \in BOOLEAN : RegisterPin(p, b)
    \/ \E ps \in PinSamples : UpdateAllPins(ps)
    \/ UpdateNextPin

(***************************************************************************)
(* FilamentMonitor (monitor.py): polling loop and persistent usage data.   *)
(* Distances are in hundredths of a millimetre.                            *)
(***************************************************************************)
ZeroUsage == [total_pulses |-> [s \in Sensors |-> 0],
              total_distance_mm |-> [s \in Sensors |-> 0],
              total_runout_events |-> [s \in Sensors |-> 0]]

\* __init__: session data and real-time sensor state
NewSession == [session_pulses |-> [s \in Sensors |-> 0],
               runout_events |-> [s \in Sensors |-> 0],
               has_filament |-> [s \in Sensors |-> TRUE]]

NoReading == <<NoLevel, NoLevel, NoLevel, NoLevel>>

\* read_sensors: four levels, or four None when the read fails
Readings == {<<a, b, c, d>> : a \in {0, 1}, b \in {0, 1}, c \in {0, 1}, d \in {0, 1}}
                \cup {NoReading}

AbsentFile == [kind |-> "absent", data |-> ZeroUsage]
CorruptFile == [kind |-> "corrupt", data |-> ZeroUsage]

\* save_persistent_data: the totals written under sensor_1 and sensor_2
SavePersistentData(u) == [kind |-> "json", data |-> u]

\* load_persistent_data: the totals after loading
LoadPersistentData(file) == IF file.kind = "json" THEN file.data ELSE ZeroUsage

\* load_persistent_data: the file after loading (created when it did not exist)
FileAfterLoad(file) == IF file.kind = "absent" THEN SavePersistentData(ZeroUsage) ELSE file

\* a monitor just constructed, with an empty usage history; sensor s is compared
NewTwin(s) == [last_gpio |-> NoReading, usage |-> ZeroUsage, session |-> NewSession,
               watched |-> s]

MonUnused ==
    /\ running = FALSE
    /\ last_gpio = NoReading
    /\ usage = ZeroUsage
    /\ session = NewSession
    /\ usage_file = AbsentFile
    /\ counting = {}
    /\ current_gpio = NoReading
    /\ last_good = NoReading
    /\ agreeing = [s \in Sensors |-> 0]
    /\ confirmed = [s \in Sensors |-> FALSE]
    /\ twin = NewTwin(1)

\* the sensor a pin belongs to: GP0, GP1 sensor 1; GP2, GP3 sensor 2
SensorOf(pin) == IF pin < 2 THEN 1 ELSE 2
IsMotionPin(pin) == pin \in {0, 2}

\* process_gpio_change, motion pin: the two statements that count the pulse
PulseCounted(m, sid) ==
    [m EXCEPT !.session_pulses[sid] = @ + 1,
              !.total_pulses[sid] = @ + 1]

\* process_gpio_change, motion pin: the statement that adds the distance
DistanceAdded(m, sid) ==
    [m EXCEPT !.total_distance_mm[sid] = @ + CalibrationMmPerPulse]

\* variant: the pulse of sensor 2 is added to the distance of sensor 1
ProcessGpioChangeWrongSensor(m, pin, old_value, new_value) ==
    LET sid == SensorOf(pin) IN
    IF old_value = 1 /\ new_value = 0
    THEN IF IsMotionPin(pin)
         THEN DistanceAdded(PulseCounted(m, sid), 1)
         ELSE [m EXCEPT !.runout_events[sid] = @ + 1,
                        !.total_runout_events[sid] = @ + 1]
    ELSE m

\* process_gpio_change on the counters m
ProcessGpioChange(m, pin, old_value, new_value) ==
    LET sid == SensorOf(pin) IN
    IF old_value = 1 /\ new_value = 0
    THEN IF IsMotionPin(pin)
         THEN DistanceAdded(PulseCounted(m, sid), sid)
         ELSE [m EXCEPT !.runout_events[sid] = @ + 1,
                        !.total_runout_events[sid] = @ + 1]
    ELSE m

\* monitor_loop, the loop over the pins: pins pin..last in order, each compared
\* with its level in the previous reading old_gpio
RECURSIVE ProcessPins(_, _, _, _, _)
ProcessPins(m, pin, last, old_gpio, gpio) ==
    IF pin > last THEN m
    ELSE LET cur == gpio[pin + 1]
             old == old_gpio[pin + 1]
             m2 == IF cur # NoLevel /\ old # NoLevel /\ cur # old
                   THEN ProcessGpioChange(m, pin, old, cur)
                   ELSE m
         IN ProcessPins(m2, pin + 1, last, old_gpio, gpio)

\* the filament status read directly from the runout pin (HIGH = present)
HasFilament(old, gpio) ==
    [s \in Sensors |->
        LET level == gpio[IF s = 1 THEN 2 ELSE 4]
        IN IF level # NoLevel THEN level = 1 ELSE old[s]]

Counters == [session_pulses |-> session.session_pulses,
             runout_events |-> session.runout_events,
             total_pulses |-> usage.total_pulses,
             total_distance_mm |-> usage.total_distance_mm,
             total_runout_events |-> usage.total_runout_events]

UsageOf(m) == [total_pulses |-> m.total_pulses,
               total_distance_mm |-> m.total_distance_mm,
               total_runout_events |-> m.total_runout_events]

\* the filament state of a sensor as get_status_json reports it
FilamentState(s) == IF session.has_filament[s] THEN "present" ELSE "runout"

EventsRecorded ==
    usage.total_pulses[1] + usage.total_pulses[2]
        + usage.total_runout_events[1] + usage.total_runout_events[2]

\* the runout pin of a sensor (GP1, GP3) as an index into a reading
RunoutIndex(s) == IF s = 1 THEN 2 ELSE 4

\* read_sensors returned gpio: the observations after this sample; a failed
\* read is no sample
Sampled(gpio) ==
    LET run == [s \in Sensors |->
                   IF gpio[RunoutIndex(s)] = last_good[RunoutIndex(s)]
                   THEN Min(agreeing[s] + 1, ConfirmationReadings)
                   ELSE 1]
    IN IF gpio = NoReading
       THEN UNCHANGED sampleVars
       ELSE /\ last_good' = gpio
            /\ agreeing' = run
            /\ confirmed' = [s \in Sensors |->
                                confirmed[s] \/ run[s] >= ConfirmationReadings]

\* the process has ended: no samples
NoSamples ==
    /\ last_good' = NoReading
    /\ agreeing' = [s \in Sensors |-> 0]
    /\ confirmed' = [s \in Sensors |-> FALSE]

\* FilamentMonitor() and start(): the usage history is loaded, the device is
\* opened and the initial levels are read; when the device cannot be opened the
\* process ends
StartMonitor(connected, initial_gpio) ==
    /\ ~running
    /\ usage_file' = FileAfterLoad(usage_file)
    /\ IF connected
       THEN /\ running' = TRUE
            /\ usage' = LoadPersistentData(usage_file)
            /\ session' = [NewSession EXCEPT
                              !.has_filament = HasFilament(NewSession.has_filament, initial_gpio)]
            /\ last_gpio' = initial_gpio
            /\ Sampled(initial_gpio)
       ELSE UNCHANGED <<running, usage, session, last_gpio, sampleVars>>
    /\ UNCHANGED <<monFrame, counting, current_gpio>>

\* one iteration of monitor_loop with no other thread running in between; the
\* totals are saved every 30 seconds
MonitorLoop(gpio, autosave) ==
    /\ running
    /\ counting = {}
    /\ EventsRecorded < MaxEvents
    /\ LET m == ProcessPins(Counters, 0, 3, last_gpio, gpio) IN
         /\ usage' = UsageOf(m)
         /\ session' = [session_pulses |-> m.session_pulses,
                        runout_events |-> m.runout_events,
                        has_filament |-> HasFilament(session.has_filament, gpio)]
         /\ usage_file' = IF autosave THEN SavePersistentData(UsageOf(m)) ELSE usage_file
    /\ last_gpio' = gpio
    /\ Sampled(gpio)
    /\ UNCHANGED <<monFrame, running, counting, current_gpio>>

\* an iteration of monitor_loop up to the point, inside process_gpio_change for
\* the motion pin, where the pulse is counted and the distance is not yet added:
\* the monitor thread holds no lock and another thread may run here
CountPulse(gpio, pin) ==
    /\ running
    /\ counting = {}
    /\ EventsRecorded < MaxEvents
    /\ IsMotionPin(pin)
    /\ last_gpio[pin + 1] = 1
    /\ gpio[pin + 1] = 0
    /\ LET m == PulseCounted(ProcessPins(Counters, 0, pin - 1, last_gpio, gpio), SensorOf(pin)) IN
         /\ usage' = UsageOf(m)
         /\ session' = [session_pulses |-> m.session_pulses,
                        runout_events |-> m.runout_events,
                        has_filament |-> HasFilament(session.has_filament, gpio)]
    /\ counting' = {pin}
    /\ current_gpio' = gpio
    /\ Sampled(gpio)
    /\ UNCHANGED <<monFrame, running, last_gpio, usage_file>>

\* the rest of that iteration: the distance is added, the remaining pins are
\* processed, last_gpio is stored
AddDistance(autosave) ==
    /\ running
    /\ counting # {}
    /\ LET pin == CHOOSE q \in counting : TRUE
           m == ProcessPins(DistanceAdded(Counters, SensorOf(pin)), pin + 1, 3,
                            last_gpio, current_gpio)
       IN /\ usage' = UsageOf(m)
          /\ session' = [session EXCEPT !.session_pulses = m.session_pulses,
                                        !.runout_events = m.runout_events]
          /\ usage_file' = IF autosave THEN SavePersistentData(UsageOf(m)) ELSE usage_file
    /\ last_gpio' = current_gpio
    /\ counting' = {}
    /\ current_gpio' = NoReading
    /\ UNCHANGED <<monFrame, running, sampleVars>>

\* stop(), called by the main thread wherever the monitor thread is: the loop
\* is told to end and the totals are saved as they are; the process then ends
StopMonitor ==
    /\ running
    /\ running' = FALSE
    /\ usage_file' = SavePersistentData(usage)
    /\ usage' = ZeroUsage
    /\ session' = NewSession
    /\ last_gpio' = NoReading
    /\ counting' = {}
    /\ current_gpio' = NoReading
    /\ NoSamples
    /\ UNCHANGED monFrame

\* the process is killed: nothing is saved, or the file is cut short when a
\* save was being written
KillMonitor(while_saving) ==
    /\ running
    /\ running' = FALSE
    /\ usage_file' = IF while_saving THEN CorruptFile ELSE usage_file
    /\ usage' = ZeroUsage
    /\ session' = NewSession
    /\ last_gpio' = NoReading
    /\ counting' = {}
    /\ current_gpio' = NoReading
    /\ NoSamples
    /\ UNCHANGED monFrame

MonitorNext ==
    \/ \E c \in BOOLEAN, g \in Readings : StartMonitor(c, g)
    \/ \E g \in Readings, a \in BOOLEAN : MonitorLoop(g, a)
    \/ \E g \in Readings, p \in {0, 2} : CountPulse(g, p)
    \/ \E a \in BOOLEAN : AddDistance(a)
    \/ StopMonitor
    \/ \E w \in BOOLEAN : KillMonitor(w)

(***************************************************************************)
(* MCP2221Manager (mcp2221_sensor/__init__.py): device and GPIO            *)
(* configuration.                                                          *)
(***************************************************************************)
\* the GPIO pins of the MCP2221A
ValidPins == {0, 1, 2, 3}

\* a configuration: the sensor entries in the order of the dictionary, each with
\* its movement_pin and runout_pin
GpioConfigs ==
    UNION {[1..n -> [movement_pin : ConfigPins, runout_pin : ConfigPins]] : n \in 1..MaxSensors}

\* what an operation leaves behind: its name, the configuration it was given,
\* the exception it raised, the device pins it had configured
Outcome(o, config, raised, pins_set) ==
    [op |-> o, config |-> config, raised |-> raised, pins_set |-> pins_set]

\* MCP2221Manager.__init__
MgrInit ==
    /\ device = "none"
    /\ is_configured = FALSE
    /\ gpio_config = <<>>
    /\ last_call = Outcome("init", <<>>, "none", 0)

\* is_connected
IsConnected == device = "present"

\* _validate_gpio_config from sensor entry i on: TRUE when no ValueError is raised
RECURSIVE ValidateGpioConfig(_, _, _)
ValidateGpioConfig(config, i, used_pins) ==
    IF i > Len(config) THEN TRUE
    ELSE LET movement_pin == config[i].movement_pin
             runout_pin == config[i].runout_pin
         IN IF movement_pin \notin ValidPins THEN FALSE
            ELSE IF runout_pin \notin ValidPins THEN FALSE
            ELSE IF movement_pin \in used_pins THEN FALSE
            ELSE IF runout_pin \in used_pins THEN FALSE
            ELSE ValidateGpioConfig(config, i + 1, used_pins \cup {movement_pin, runout_pin})

\* detect_device: the device is found or not
DetectDevice(found) ==
    /\ device' = IF found THEN "present" ELSE "none"
    /\ last_call' = Outcome("detect_device", <<>>, "none", 0)
    /\ UNCHANGED <<mgrFrame, is_configured, gpio_config>>

\* disconnect
DisconnectDevice ==
    /\ IF device # "none"
       THEN device' = "none" /\ is_configured' = FALSE
       ELSE UNCHANGED <<device, is_configured>>
    /\ last_call' = Outcome("disconnect", <<>>, "none", 0)
    /\ UNCHANGED <<mgrFrame, gpio_config>>

\* configure_gpio; failing is the number of device pins configured before the
\* device raises, NoFailure when it does not
ConfigureGpio(config, failing) ==
    /\ IF ~IsConnected
       THEN /\ last_call' = Outcome("configure_gpio", config, "ConnectionError", 0)
            /\ UNCHANGED <<is_configured, gpio_config>>
       ELSE IF ~ValidateGpioConfig(config, 1, {})
       THEN /\ last_call' = Outcome("configure_gpio", config, "ValueError", 0)
            /\ UNCHANGED <<is_configured, gpio_config>>
       ELSE IF failing # NoFailure
       THEN /\ last_call' = Outcome("configure_gpio", config, "Exception", failing)
            /\ UNCHANGED <<is_configured, gpio_config>>
       ELSE /\ last_call' = Outcome("configure_gpio", config, "none", 4)
            /\ gpio_config' = config
            /\ is_configured' = TRUE
    /\ UNCHANGED <<mgrFrame, device>>

ManagerNext ==
    \/ \E found \in BOOLEAN : DetectDevice(found)
    \/ DisconnectDevice
    \/ \E config \in GpioConfigs, failing \in {NoFailure, 1} : ConfigureGpio(config, failing)

ManagerSpecInit == ConnUnused /\ PulseUnused /\ MonUnused /\ MgrInit /\ NoCallbacks /\ NothingArrived

ManagerSpec == ManagerSpecInit /\ [][ManagerNext]_vars

MonitorSpecInit == ConnUnused /\ PulseUnused /\ MonUnused /\ MgrInit /\ NoCallbacks /\ NothingArrived

MonitorSpec == MonitorSpecInit /\ [][MonitorNext]_vars

(***************************************************************************)
(* Two monitors polled in step: the readings of the second agree with the  *)
(* readings of the first on the pins of the compared sensor.               *)
(***************************************************************************)
\* the readings agree on the pins of sensor s (a failed read fails for both)
AgreeOn(s, gA, gB) ==
    /\ gA[2 * s - 1] = gB[2 * s - 1]
    /\ gA[2 * s] = gB[2 * s]
    /\ (gA = NoReading) = (gB = NoReading)

CountersOf(t) == [session_pulses |-> t.session.session_pulses,
                  runout_events |-> t.session.runout_events,
                  total_pulses |-> t.usage.total_pulses,
                  total_distance_mm |-> t.usage.total_distance_mm,
                  total_runout_events |-> t.usage.total_runout_events]

EventsRecordedBy(t) ==
    t.usage.total_pulses[1] + t.usage.total_pulses[2]
        + t.usage.total_runout_events[1] + t.usage.total_runout_events[2]

\* the first monitor as a record
Monitored == [last_gpio |-> last_gpio, usage |-> usage, session |-> session,
              watched |-> twin.watched]

\* connect() on the monitor t: the initial reading sets the filament status and
\* the baseline
Connected(t, initial_gpio) ==
    [t EXCEPT !.last_gpio = initial_gpio,
              !.session.has_filament = HasFilament(NewSession.has_filament, initial_gpio)]

\* one iteration of monitor_loop on the monitor t
LoopIteration(t, gpio) ==
    LET m == ProcessPins(CountersOf(t), 0, 3, t.last_gpio, gpio) IN
    [t EXCEPT !.last_gpio = gpio,
              !.usage = UsageOf(m),
              !.session = [session_pulses |-> m.session_pulses,
                           runout_events |-> m.runout_events,
                           has_filament |-> HasFilament(t.session.has_filament, gpio)]]

\* both monitors are started
TwinStart(gA, gB) ==
    /\ ~running
    /\ AgreeOn(twin.watched, gA, gB)
    /\ running' = TRUE
    /\ LET a == Connected(Monitored, gA) IN
         /\ last_gpio' = a.last_gpio
         /\ usage' = a.usage
         /\ session' = a.session
    /\ twin' = Connected(twin, gB)
    /\ UNCHANGED <<connVars, pulseVars, mgrVars, cbVars, obsVars, workerVars, usage_file,
                   counting, current_gpio, sampleVars>>

\* both monitors run one iteration of monitor_loop
TwinLoop(gA, gB) ==
    /\ running
    /\ AgreeOn(twin.watched, gA, gB)
    /\ EventsRecorded < MaxTwinEvents
    /\ EventsRecordedBy(twin) < MaxTwinEvents
    /\ LET a == LoopIteration(Monitored, gA) IN
         /\ last_gpio' = a.last_gpio
         /\ usage' = a.usage
         /\ session' = a.session
    /\ twin' = LoopIteration(twin, gB)
    /\ UNCHANGED <<connVars, pulseVars, mgrVars, cbVars, obsVars, workerVars, running,
                   usage_file, counting, current_gpio, sampleVars>>

TwinNext ==
    \/ \E gA \in Readings, gB \in Readings : TwinStart(gA, gB)
    \/ \E gA \in Readings, gB \in Readings : TwinLoop(gA, gB)

TwinSpecInit ==
    /\ ConnUnused
    /\ PulseUnused
    /\ running = FALSE
    /\ last_gpio = NoReading
    /\ usage = ZeroUsage
    /\ session = NewSession
    /\ usage_file = AbsentFile
    /\ counting = {}
    /\ current_gpio = NoReading
    /\ last_good = NoReading
    /\ agreeing = [s \in Sensors |-> 0]
    /\ confirmed = [s \in Sensors |-> FALSE]
    /\ twin \in {NewTwin(s) : s \in Sensors}
    /\ MgrInit
    /\ NoCallbacks
    /\ NothingArrived

TwinSpec == TwinSpecInit /\ [][TwinNext]_vars

PulseSpecInit == ConnUnused /\ PulseInit /\ MonUnused /\ MgrInit /\ NoCallbacks /\ NothingArrived

PulseSpec == PulseSpecInit /\ [][PulseNext]_vars

AllPinsSpecInit == ConnUnused /\ PulseInit /\ MonUnused /\ MgrInit /\ NoCallbacks /\ NothingArrived

AllPinsSpec == AllPinsSpecInit /\ [][AllPinsNext]_vars

SnapshotSpecInit ==
    ConnUnused /\ PulseUnused /\ MonUnused /\ MgrInit /\ NoCallbacks /\ NothingArrived

SnapshotSpec == SnapshotSpecInit /\ [][SnapshotNext]_vars

WorkerSpecInit ==
    ConnUnused /\ PulseUnused /\ MonUnused /\ MgrInit /\ NoCallbacks /\ NothingArrived

WorkerSpec == WorkerSpecInit /\ [][WorkerNext]_vars

(***************************************************************************)
(* The bounded lists on their own: _record_attempt and add_pulse applied   *)
(* more often than the lists are long.  The attempts come first, then one  *)
(* pulse with every reading of the clock, on any pin.                      *)
(***************************************************************************)
\* _record_attempt, called by the retry loop after a device_connector call
RingAttempt(success) ==
    /\ stats.total_attempts < MaxRingAttempts
    /\ success => stats.successful_connections < MaxRingSuccesses
    /\ stats' = RecordAttempt(stats, success)
    /\ arrived' = [arrived EXCEPT !.attempts = Append(@, NewAttempt(stats, success))]
    /\ UNCHANGED <<cfgVars, pulseVars, monVars, mgrVars, cbVars, workerVars, threadVars,
                   histVars, state, connection_time, retry_count, current_retry_delay, lock,
                   monitor, stop_monitoring>>

\* add_pulse, called by update_pin_state with the time it read
RingPulse(p) ==
    /\ stats.total_attempts = MaxRingAttempts
    /\ now < MaxRingPulses
    /\ now' = now + 1
    /\ pulse_stats' = [pulse_stats EXCEPT ![p] = AddPulse(@, now')]
    /\ arrived' = [arrived EXCEPT !.pulses[p] = Append(@, now')]
    /\ UNCHANGED <<connVars, monVars, mgrVars, cbVars, workerVars, debounce_ms, registered,
                   pin_states, last_change_time, returned, raw_since, prev_count, pin_invoked,
                   pending, emitted, handed>>

RingNext ==
    \/ \E success \in BOOLEAN : RingAttempt(success)
    \/ \E p \in Pins : RingPulse(p)

RingSpecInit ==
    ConnUnused /\ PulseUnused /\ MonUnused /\ MgrInit /\ NoCallbacks /\ NothingArrived

RingSpec == RingSpecInit /\ [][RingNext]_vars

(***************************************************************************)
(* The application has registered its callbacks on the connection manager  *)
(* and on the pulse detector, and some of them raise when they are         *)
(* invoked.  The two objects share no state: a run works on one of them,   *)
(* and the callbacks that raise are callbacks of that one.                 *)
(***************************************************************************)
\* register_state_callback, register_connection_callback, register_pulse_callback
\* and register_edge_callback have been called for every callback
Registered ==
    /\ state_change_callbacks = [i \in 1..MaxCallbacks |-> <<"state", i>>]
    /\ connection_callbacks = [i \in 1..MaxCallbacks |-> <<"connection", i>>]
    /\ edge_callbacks = Pins
    /\ pulse_callbacks = Pins

OnDetector == calls_made = 0 /\ raising \subseteq PinListeners
OnManager == registered = {} /\ now = 0 /\ raising \subseteq Listeners

CallbackNext ==
    \/ OnDetector /\ AdvanceTime
    \/ \E p \in Pins, b \in BOOLEAN : OnDetector /\ RegisterPin(p, b)
    \/ \E p \in Pins, b \in BOOLEAN :
           UpdatePinState(p, b, raising) /\ UNCHANGED <<pending, emitted, handed>>
    \/ \E p \in Pins : ResetPinStatistics(p)
    \/ \E t \in Callers, o \in {"connect", "reconnect", "disconnect"} :
           OnManager /\ Call(t, o)
    \/ \E t \in Threads : ThreadStep(t)
    \/ MonitorStep

CallbackSpecInit ==
    /\ initial_retry_delay = 1
    /\ max_retry_delay = 2
    /\ backoff_multiplier = 2
    /\ max_retry_attempts = MaxRetryAttempts
    /\ ConnConstructed
    /\ PulseUnused
    /\ MonUnused
    /\ MgrInit
    /\ NothingArrived
    /\ Registered
    /\ raising \in (SUBSET Listeners) \cup (SUBSET PinListeners)

CallbackSpec == CallbackSpecInit /\ [][CallbackNext]_vars

Init == ConnInit /\ PulseUnused /\ MonUnused /\ MgrInit /\ NoCallbacks /\ NothingArrived

Next ==
    \/ \E t \in Callers, o \in {"connect", "reconnect", "disconnect"} : Call(t, o)
    \/ \E t \in Threads : ThreadStep(t)
    \/ MonitorStep

Spec == Init /\ [][Next]_vars

\* Every started thread keeps being scheduled; callers are free to stop calling.
FairSpec ==
    /\ Init /\ [][Next]_vars
    /\ \A t \in Threads : WF_vars(ThreadStep(t))
    /\ WF_vars(MonitorStep)

(***************************************************************************)
(* Properties of the ConnectionManager                                     *)
(***************************************************************************)
RECURSIVE Pow(_, _)
Pow(b, n) == IF n = 0 THEN 1 ELSE b * Pow(b, n - 1)

InRetryLoop(t) == pc[t] \in {"loop", "sleep"} /\ lock = t
ReturnsFrom(t, o) == pc[t] = "ret" /\ op[t] = o

\* C1: within one retry loop the delays slept between failed attempts are
\* non-decreasing and none exceeds max_retry_delay.
C1_BackoffMonotonic ==
    \A i \in 1..Len(sleeps) :
        /\ sleeps[i] <= max_retry_delay
        /\ i > 1 => sleeps[i - 1] <= sleeps[i]

\* C2: connect() on a fresh manager whose device_connector fails k times and
\* then succeeds returns True in state Connected with successful_connections = 1,
\* failed_attempts = k, total_attempts = k + 1 and exactly k sleeps, the i-th of
\* length min(initial_retry_delay * backoff_multiplier^(i-1), max_retry_delay).
C2_FailKThenSucceed ==
    \A t \in Callers :
        (ReturnsFrom(t, "connect") /\ fresh /\ result[t] = "true") =>
            LET k == loop_calls - 1 IN
            /\ k < max_retry_attempts
            /\ state = "connected"
            /\ stats.successful_connections = 1
            /\ stats.failed_attempts = k
            /\ stats.total_attempts = k + 1
            /\ Len(sleeps) = k
            /\ \A i \in 1..k :
                 sleeps[i] = Min(initial_retry_delay * Pow(backoff_multiplier, i - 1),
                                 max_retry_delay)

\* C3: when device_connector never succeeds, connect() and reconnect() call it
\* exactly max_retry_attempts times, return False and leave the state Failed.
C3_ExhaustedRetries ==
    stats.successful_connections = 0 =>
        /\ \A t \in Threads : InRetryLoop(t) => loop_calls <= max_retry_attempts
        /\ \A t \in Threads :
             (ReturnsFrom(t, "connect") \/ ReturnsFrom(t, "reconnect")) =>
                 /\ result[t] = "false"
                 /\ loop_calls = max_retry_attempts
                 /\ state = "failed"

C3_Witness ==
    \E t \in Threads :
        /\ ReturnsFrom(t, "reconnect")
        /\ stats.successful_connections = 0
        /\ result[t] = "false"
        /\ loop_calls = max_retry_attempts
        /\ max_retry_attempts > 1

\* C4: once the state is Failed and no caller has a connect(), reconnect() or
\* disconnect() call in progress, no device_connector call is made and the state
\* stays Failed.
C4_NoAutoRetryFromFailed ==
    [][(state = "failed" /\ \A c \in Callers : pc[c] = "idle") =>
           (state' = "failed" /\ stats'.total_attempts = stats.total_attempts)]_vars

\* a reconnect started by a failed health check taken in state Connected is
\* waiting for the lock
ReconnectPending(r) == pc[r] = "acquire" /\ issued_in[r] = "connected"

C6_DisconnectAlwaysLands ==
    \A t \in Threads :
        ReturnsFrom(t, "disconnect") =>
            /\ state = "disconnected"
            /\ connection_time = "none"
            /\ GetUptime = "none"
            /\ (MonitorAlive => stop_monitoring)

C6_Witness ==
    \E t \in Threads :
        /\ ReturnsFrom(t, "disconnect")
        /\ issued_in[t] = "reconnecting"
        /\ stats.successful_connections > 0

\* C7: after a disconnect() was issued while a retry loop was in its backoff
\* sleep, and until that disconnect() has run, no device_connector call is made.
C7_InterruptibleBackoff ==
    [][(\E d \in Callers : pc[d] = "acquire" /\ op[d] = "disconnect" /\ during_sleep[d])
           => stats'.total_attempts = stats.total_attempts]_vars

(***************************************************************************)
(* Properties of the PulseDetector                                         *)
(***************************************************************************)
\* update_pin_state changed the level tracked for pin p in this step
LevelChanged(p) ==
    /\ p \in registered
    /\ pin_states'[p] # pin_states[p]
    /\ prev_count'[p] >= 0

\* C8: the stable level tracked for a pin changes (a debounced transition is
\* accepted) only when the run of the differing raw level has lasted at least
\* the debounce window.
C8_DebounceInvariant ==
    [][\A p \in Pins :
          (LevelChanged(p) /\ returned' = "event") =>
              now' - raw_since'[p] >= debounce_ms]_vars

\* C9: an excursion that reverts to the previous level before the debounce time
\* has elapsed has not incremented the pulse count, however long the level had
\* been stable before it.
C9_NoiseRejection ==
    [][\A p \in Pins :
          (LevelChanged(p) /\ prev_count[p] >= 0 /\ now - last_change_time[p] < debounce_ms) =>
              pulse_stats[p].debounced_pulses = prev_count[p]]_vars

\* a step that replaces the statistics of p (register_pin, reset_pin_statistics)
StatisticsReplaced(p) == prev_count'[p] = -1 /\ pulse_stats'[p] = NewPulseStats

MinPulseIntervalMs == 2

\* C12: a falling edge that comes less than 1 / max_pulse_frequency_hz after
\* the last accepted pulse does not change the pulse count.
C12_MaxPulseFrequency ==
    [][\A p \in Pins :
          (/\ LevelChanged(p)
           /\ pin_states[p] /\ ~pin_states'[p]
           /\ pulse_stats[p].last_pulse_time # NoTime
           /\ now - pulse_stats[p].last_pulse_time < MinPulseIntervalMs) =>
              pulse_stats'[p] = pulse_stats[p]]_vars

(***************************************************************************)
(* Properties of the FilamentMonitor                                       *)
(***************************************************************************)
\* C10: for each sensor the accumulated distance equals the counted pulses
\* multiplied by mm_per_pulse, whenever the monitor thread is not inside the
\* handler that counts a pulse.
C10_PulseDistance ==
    counting = {} =>
        \A s \in Sensors :
            usage.total_distance_mm[s] = usage.total_pulses[s] * CalibrationMmPerPulse

\* C13: while the monitor runs, a sensor's filament state and its runout
\* counts change only when at least confirmation_readings consecutive samples
\* of its runout pin agree on the new level.
C13_ConfirmationInvariant ==
    [][\A s \in Sensors :
          (/\ running /\ running'
           /\ \/ FilamentState(s)' # FilamentState(s)
              \/ session'.runout_events[s] # session.runout_events[s]
              \/ usage'.total_runout_events[s] # usage.total_runout_events[s]) =>
              agreeing'[s] >= ConfirmationReadings]_vars

\* C15: between loop iterations the baseline of every pin is the last level
\* that was read successfully, and a tick whose read fails records no pulse and
\* no runout event and leaves the loop running.
C15_TransientReadFailure ==
    /\ [](running /\ counting = {} => last_gpio = last_good)
    /\ [][(running /\ counting = {} /\ counting' = {} /\ last_gpio' = NoReading /\ running') =>
             (usage' = usage /\ session' = session)]_vars

\* C18: a sensor's filament state is Unknown until its first confirmed
\* reading, and once it is not Unknown it never is Unknown again.
C18_FilamentStateShape ==
    /\ [](\A s \in Sensors : ~confirmed[s] => FilamentState(s) = "unknown")
    /\ [][\A s \in Sensors :
             FilamentState(s) # "unknown" => FilamentState(s)' # "unknown"]_vars

\* what a sensor shows: filament state, pulse counts, distance, runout counts
SensorView(s, c, has_filament) ==
    <<has_filament[s], c.session_pulses[s], c.total_pulses[s], c.total_distance_mm[s],
      c.runout_events[s], c.total_runout_events[s]>>

\* C14: two monitors whose sample histories agree on the pins of one sensor and
\* differ arbitrarily on the pins of the other show the same filament state,
\* pulse count, distance and runout-event count for that sensor after every
\* step.
C14_SensorIndependence ==
    SensorView(twin.watched, Counters, session.has_filament)
        = SensorView(twin.watched, CountersOf(twin), twin.session.has_filament)

\* the compared sensor has counted a pulse and a runout in both monitors while
\* the other sensor's counts differ between them
C14_Witness ==
    LET s == twin.watched
        o == 3 - twin.watched
    IN /\ running
       /\ usage.total_pulses[s] = 1
       /\ usage.total_runout_events[s] = 1
       /\ usage.total_pulses[o] = 1
       /\ twin.usage.total_pulses[o] = 0
       /\ twin.usage.total_runout_events[o] = 1
       /\ session.has_filament[o] # twin.session.has_filament[o]

(***************************************************************************)
(* Properties of the ConnectionManager: state machine and health-check loop *)
(***************************************************************************)
\* the state changes of the connection state machine
StateMachineEdges ==
    {<<"disconnected", "connecting">>, <<"connecting", "connected">>,
     <<"connecting", "failed">>, <<"connected", "reconnecting">>,
     <<"reconnecting", "connected">>, <<"reconnecting", "failed">>}

\* C19: every state change is made by the thread that holds the lock and is an
\* edge of the state machine, a change to Disconnected made by disconnect(), or
\* a change out of Failed made by a caller's connect() or reconnect().
C19_StateMachineConformance ==
    [][state' # state =>
          /\ lock' # NoThread
          /\ \/ <<state, state'>> \in StateMachineEdges
             \/ state' = "disconnected" /\ op[lock'] = "disconnect"
             \/ /\ state = "failed"
                /\ lock' \in Callers
                /\ op[lock'] \in {"connect", "reconnect"}]_vars

\* C20: whenever the state is Connected, no call is in progress and no
\* reconnect started by a failed health check is waiting, a health-check loop
\* is running with its stop signal cleared.
C20_HealthCheckLoopRunning ==
    (/\ state = "connected"
     /\ lock = NoThread
     /\ \A r \in Reconnectors : ~ReconnectPending(r)) =>
        (monitor \in {"wait", "health", "caught"} /\ ~stop_monitoring)

(***************************************************************************)
(* Properties of the MCP2221Manager                                        *)
(***************************************************************************)
\* the pins a configuration names, in order
PinsOf(config) ==
    [i \in 1..(2 * Len(config)) |->
        IF i % 2 = 1 THEN config[(i + 1) \div 2].movement_pin
                     ELSE config[i \div 2].runout_pin]

\* a pin outside 0..3, or the same pin twice
Rejectable(config) ==
    \/ \E i \in DOMAIN PinsOf(config) : PinsOf(config)[i] \notin 0..3
    \/ \E i, j \in DOMAIN PinsOf(config) : i # j /\ PinsOf(config)[i] = PinsOf(config)[j]

\* C17: configure_gpio on a connected device with a configuration that names
\* a pin outside 0..3 or the same pin twice raises ValueError before any device
\* pin is configured and leaves the stored configuration and the configured
\* flag unchanged.
C17_EagerConfigRejection ==
    [][(/\ last_call'.op = "configure_gpio"
        /\ IsConnected
        /\ Rejectable(last_call'.config)) =>
           /\ last_call'.raised = "ValueError"
           /\ last_call'.pins_set = 0
           /\ gpio_config' = gpio_config
           /\ is_configured' = is_configured]_vars

(***************************************************************************)
(* Properties of callback dispatch                                         *)
(***************************************************************************)
\* C16: when registered callbacks raise, update_pin_state and every step of
\* connect, reconnect and disconnect end as they end when no callback raises:
\* the same return value, the same state and statistics, and the same
\* callbacks invoked, those after the raising one included.
C16_CallbackFailureIsolation ==
    [][/\ \A p \in Pins, b \in BOOLEAN :
             UpdatePinState(p, b, raising) => UpdatePinState(p, b, {})
       /\ \A t \in Threads :
             /\ ConnectEnter(t, raising) => ConnectEnter(t, {})
             /\ ReconnectEnter(t, raising) => ReconnectEnter(t, {})
             /\ DisconnectEnter(t, raising) => DisconnectEnter(t, {})
             /\ DisconnectJoined(t, raising) => DisconnectJoined(t, {})
             /\ Exhausted(t, raising) => Exhausted(t, {})
             /\ \A outcome \in {"true", "false", "raise"} :
                   Attempt(t, outcome, raising) => Attempt(t, outcome, {})]_vars

\* connect() returns True after its first state callback raised and the
\* callbacks registered after it were invoked
C16_Witness ==
    \E t \in Callers :
        /\ ReturnsFrom(t, "connect")
        /\ result[t] = "true"
        /\ <<"state", 1>> \in raising
        /\ invoked = state_change_callbacks \o connection_callbacks

(***************************************************************************)
(* Properties of the connection statistics                                 *)
(***************************************************************************)
\* C26: total_attempts = successful_connections + failed_attempts in every
\* state; no counter ever decreases; total_attempts grows by one with every
\* call of device_connector and by nothing else.
C26_StatsAppendOnly ==
    /\ [](stats.total_attempts = stats.successful_connections + stats.failed_attempts)
    /\ [][/\ stats'.total_attempts >= stats.total_attempts
          /\ stats'.successful_connections >= stats.successful_connections
          /\ stats'.failed_attempts >= stats.failed_attempts
          /\ stats'.total_attempts =
                 IF \E t \in Threads, outcome \in {"true", "false", "raise"} :
                        Attempt(t, outcome, raising)
                 THEN stats.total_attempts + 1
                 ELSE stats.total_attempts]_vars

\* a failed and a successful attempt have been recorded
C26_Witness ==
    /\ stats.failed_attempts >= 1
    /\ stats.successful_connections >= 1
    /\ stats.total_attempts >= 3

\* the attempt recorded last, a failed one when none is recorded
LastAttempt ==
    IF stats.recent_attempts = <<>>
    THEN [timestamp |-> 0, success |-> FALSE]
    ELSE stats.recent_attempts[Len(stats.recent_attempts)]

\* C28: in state Connected the attempt recorded last succeeded and
\* last_successful_connection is set; the state becomes Connected only in the
\* step of a device_connector call that returned True.
C28_ConnectedImpliesSuccess ==
    /\ [](state = "connected" =>
             /\ LastAttempt.success
             /\ stats.last_successful_connection = "set")
    /\ [][(state' = "connected" /\ state # "connected") =>
             \E t \in Threads : Attempt(t, "true", raising)]_vars

\* Connected for the second time, after failed attempts in between
C28_Witness ==
    /\ state = "connected"
    /\ stats.successful_connections >= 2
    /\ stats.failed_attempts >= 1

\* C29: connect() entered in state Connected returns True at once: no
\* device_connector call, no callback invoked, and the state, the retry
\* delay and count, the connection time and the statistics stay as they are.
C29_ConnectWhenConnected ==
    [][\A t \in Threads :
          (ConnectEnter(t, raising) /\ state = "connected") =>
              /\ pc'[t] = "ret"
              /\ result'[t] = "true"
              /\ loop_calls' = loop_calls
              /\ invoked' = invoked
              /\ invoked = <<>>
              /\ UNCHANGED <<state, current_retry_delay, retry_count, connection_time, stats>>]_vars

\* a connect() call that found the manager connected is about to return
C29_Witness ==
    \E t \in Callers :
        /\ ReturnsFrom(t, "connect")
        /\ result[t] = "true"
        /\ loop_calls = 0
        /\ state = "connected"
        /\ state_change_callbacks # <<>>

\* C30: an exception of health_checker is caught inside the loop: the step
\* that raises it and the step that handles it change neither the state nor
\* any thread, start no reconnect, and the loop is back at its wait.
C30_HealthCheckerException ==
    [][/\ (monitor' = "caught" /\ monitor # "caught") =>
             /\ monitor = "health"
             /\ UNCHANGED <<state, pc, op, spawned, stop_monitoring>>
       /\ (monitor = "caught" /\ monitor' # "caught") =>
             /\ monitor' = "wait"
             /\ UNCHANGED <<state, pc, op, spawned, stop_monitoring>>]_vars

\* health_checker has just raised while the state is Connected
C30_Witness == monitor = "caught" /\ state = "connected" /\ ~stop_monitoring

\* C27: after disconnect() has returned the state leaves Disconnected, and
\* device_connector is called, only in a connect() or reconnect() call made
\* by a caller, never in the reconnect scheduled by the health-check loop.
C27_NoReconnectAfterDisconnect ==
    [][(state = "disconnected" /\ stats.total_attempts > 0) =>
          /\ state' # "disconnected" => lock' \in Callers
          /\ \A r \in Reconnectors, outcome \in {"true", "false", "raise"} :
                ~Attempt(r, outcome, raising)]_vars

(***************************************************************************)
(* Properties of the monitor's runout events                               *)
(***************************************************************************)
\* has_filament of sensor s goes from present to absent in this step
BecomesAbsent(s) == session.has_filament[s] /\ ~session'.has_filament[s]

\* C21: over every whole iteration of the polling loop a sensor's runout
\* counter grows by one when its has_filament goes from present to absent and
\* stays as it is otherwise; connect() does not turn the has_filament of the
\* new monitor to absent, for which it records no event.
C21_RunoutEventPerTransition ==
    [][/\ (running /\ running' /\ counting = {} /\ counting' = {}) =>
             \A s \in Sensors :
                 session'.runout_events[s] =
                     session.runout_events[s] + (IF BecomesAbsent(s) THEN 1 ELSE 0)
       /\ (~running /\ running') =>
             \A s \in Sensors : session'.has_filament[s]]_vars

(***************************************************************************)
(* Properties of update_all_pins                                           *)
(***************************************************************************)
\* C25: update_all_pins processes the pins of one tick, and enters their
\* events, in ascending pin id, whatever the order of the entries supplied.
C25_DeterministicPinOrder ==
    \A i, j \in DOMAIN emitted : i < j => emitted[i] < emitted[j]


(***************************************************************************)
(* Properties of the bounded lists                                         *)
(***************************************************************************)
\* the last n entries of a list, in the order they were added
LastOf(log, n) ==
    SubSeq(log, IF Len(log) > n THEN Len(log) - n + 1 ELSE 1, Len(log))

\* C24: recent_attempts never holds more than 20 attempts and recent_pulses
\* never more than 10 pulse times, and each holds exactly the entries added
\* last, in the order they arrived: the oldest entry is the one dropped.
C24_BoundedRings ==
    /\ Len(stats.recent_attempts) <= 20
    /\ stats.recent_attempts = LastOf(arrived.attempts, 20)
    /\ \A p \in Pins :
          /\ Len(pulse_stats[p].recent_pulses) <= 10
          /\ pulse_stats[p].recent_pulses = LastOf(arrived.pulses[p], 10)

\* both lists are full and have dropped an entry; the dropped attempt is the
\* successful one
C24_Witness ==
    /\ Len(arrived.attempts) > 20
    /\ Len(stats.recent_attempts) = 20
    /\ arrived.attempts[1].success
    /\ \A i \in DOMAIN stats.recent_attempts : ~stats.recent_attempts[i].success
    /\ \E p \in Pins :
          /\ Len(arrived.pulses[p]) > 10
          /\ Len(pulse_stats[p].recent_pulses) = 10
          /\ pulse_stats[p].recent_pulses[1] # arrived.pulses[p][1]


(***************************************************************************)
(* Properties of the statistics queries                                    *)
(***************************************************************************)
\* C23: the statistics value a query handed out is a snapshot: whatever pin
\* updates and resets happen after the query returned, its holder reads in
\* it what it held when the query returned.
C23_SnapshotUnchanged ==
    \A p \in Pins : handed[p].held # "none" => HandedContents(p) = handed[p].taken


(***************************************************************************)
(* Properties of the detector under concurrent calls                       *)
(***************************************************************************)
\* C22: whenever no thread is inside the detector, its pin states, times
\* of change and statistics are those the same calls give when they are run
\* one after the other, in the order in which they took the lock: no pulse
\* is lost and none is counted twice.
C22_SerializedMutators ==
    (detector_lock = NoOwner /\ serial.started) => Detector = serial.detector

\* all calls have returned; a thread has waited for the lock while another
\* was in its call, and a pulse has been counted
C22_Witness ==
    /\ \A w \in Workers : workers[w].pc = "idle"
    /\ serial.calls = MaxWorkerCalls
    /\ serial.waited
    /\ \E p \in Pins : pulse_stats[p].total_pulses >= 1

====
